---- MODULE Spec2Model ----
(***************************************************************************)
(* Rebalance bot of app/src/services/botService.ts (class BotService) on   *)
(* top of the CetusService collaborator (app/src/services/cetusService.ts).*)
(*                                                                         *)
(* JavaScript runs one task at a time; an async method runs atomically     *)
(* from one await to the next.  Every action below is one such run: the    *)
(* synchronous prefix of an API call up to its first pending await, or the *)
(* continuation of a suspended call when the awaited CetusService promise  *)
(* resolves.  Suspended calls are the records of `tasks`.                  *)
(*                                                                         *)
(* CetusService is injected through the constructor; its promises resolve  *)
(* with any value of their declared type (LiquidityPosition | null,        *)
(* RebalanceResult), chosen by the environment when the promise resolves.  *)
(* Both observers (onStatusUpdate, onRebalance) are attached.              *)
(***************************************************************************)
EXTENDS Integers, Sequences, FiniteSets, TLC

\* ------------------------------------------------------------- bounds
MaxTasks == 3          \* async calls (start, ticks, manual, checks) per run
MaxClockSteps == 1     \* times the clock advances
ClockStep == 1000      \* milliseconds per clock advance
Epoch == 1000          \* Date.now() at construction (positive)
MaxInterval == 1       \* largest minRebalanceInterval (seconds) a caller sets
LargeGas == 2000000000 \* a large computationCost one rebalance reports
MaxLiquidity == 2      \* largest liquidity given to calculateTokenAmounts
MaxSqrtPrice == 3      \* largest sqrt price bound given to calculateTokenAmounts
MaxEdits == 2          \* edits a caller makes to one BotState snapshot

\* ------------------------------------------------- program constants
MsPerSecond == 1000    \* canRebalance: minRebalanceInterval * 1000
DecimalPlaces == 20    \* bignumber.js: decimal places div() keeps (its default)
ErrorCap == 100        \* logError: keep only last 100 errors

\* ------------------------------------------------------ value domains
NoId == "null"                         \* positionId: string | null
StartIds == {"p1"}                     \* ids a caller passes to startMonitoring
NewIds == {"p2"}                       \* ids of positions a rebalance opens
PositionIds == StartIds \cup NewIds
NoTime == -1                           \* lastRebalanceTime: number | null
NoTimer == 0                           \* monitoringInterval: Timeout | null
NoGas == -1                            \* RebalanceResult.gasCost undefined
GasCosts == {100}
Slots == 1..MaxTasks

\* LiquidityPosition, reduced to the fields the bot reads.
Snapshots ==
    { [tickLower |-> -1, tickUpper |-> 1, currentTick |-> c] : c \in -2..2 }
NotFound == [tickLower |-> 0, tickUpper |-> 0, currentTick |-> 0]
\* What the promise of CetusService.getPosition resolves with: a position, or
\* null (position or pool not found, or any error of the ledger client, which
\* getPosition catches).  It never rejects.
FetchOutcomes == { [kind |-> "position", position |-> p] : p \in Snapshots }
                 \cup { [kind |-> "null", position |-> NotFound] }

\* RebalanceResult, reduced to the fields the bot reads.
FailureResult == [success |-> FALSE, gasCost |-> NoGas, newPositionId |-> NoId]
RebalanceResults ==
    { [success |-> TRUE, gasCost |-> g, newPositionId |-> n] :
        g \in GasCosts, n \in NewIds \cup {NoId} }
    \cup {FailureResult}

\* The RebalanceConfig the bot is constructed with.
InitialConfig ==
    [ slippageTolerance |-> 1, rangeWidthPercent |-> 10,
      minRebalanceInterval |-> 1, gasBudget |-> 1, autoRebalance |-> TRUE ]
\* Partial<RebalanceConfig> values a caller passes to updateConfig.
ConfigUpdates ==
    { [f \in {"minRebalanceInterval"} |-> v] : v \in 0..MaxInterval }
    \cup { [f \in {"autoRebalance"} |-> b] : b \in BOOLEAN }

\* A suspended async call.
FreeTask == [kind |-> "none", pc |-> "free", pid |-> NoId]
DoneTask == [kind |-> "none", pc |-> "done", pid |-> NoId]

VARIABLES
    isRunning,            \* state.isRunning
    lastRebalanceTime,    \* state.lastRebalanceTime
    rebalanceCount,       \* state.rebalanceCount
    totalGasSpent,        \* state.totalGasSpent (decimal string of a BigInt)
    errors,               \* state.errors
    config,               \* this.config
    monitoringInterval,   \* this.monitoringInterval
    positionId,           \* this.positionId
    timers,               \* live setInterval timers of the JS runtime
    tasks,                \* suspended async calls, by spawn order, and the
                          \* BotState snapshots callers hold
    now,                  \* Date.now()
    lastOutput            \* the latest output: a return or throw to a caller
                          \* and the onRebalance call made with it, or what a
                          \* CetusService function returned

vars == << isRunning, lastRebalanceTime, rebalanceCount, totalGasSpent, errors,
           config, monitoringInterval, positionId, timers, tasks, now,
           lastOutput >>

botState == << isRunning, lastRebalanceTime, rebalanceCount, totalGasSpent, errors >>

\* ------------------------------------------------------------ helpers
\* JavaScript truthiness of `number | null` and `string | null`.
FalsyTime(t) == t = NoTime \/ t = 0
FalsyId(p) == p = NoId \/ p = ""

isPriceOutOfRangeExclusive(position) ==
    \/ position.currentTick <= position.tickLower
    \/ position.currentTick >= position.tickUpper

isPriceOutOfRange(position) ==
    \/ position.currentTick < position.tickLower
    \/ position.currentTick > position.tickUpper

canRebalanceUnitsMixed(last, cfg, t) ==
    IF FalsyTime(last) THEN TRUE
    ELSE t - last >= cfg.minRebalanceInterval

canRebalance(last, cfg, t) ==
    IF FalsyTime(last) THEN TRUE
    ELSE t - last >= cfg.minRebalanceInterval * MsPerSecond

logErrorPops(errs, message, t) ==
    LET pushed == Append(errs, [time |-> t, message |-> message])
    IN IF Len(pushed) > ErrorCap THEN SubSeq(pushed, 1, ErrorCap) ELSE pushed

logError(errs, message, t) ==
    LET pushed == Append(errs, [time |-> t, message |-> message])
    IN IF Len(pushed) > ErrorCap THEN Tail(pushed) ELSE pushed

AddGasDropped(total, gasCost) == total

AddGasOverwrites(total, gasCost) == IF gasCost = NoGas THEN total ELSE gasCost

\* state.totalGasSpent after `if (result.gasCost) total = BigInt(total) + BigInt(gasCost)`
AddGas(total, gasCost) ==
    IF gasCost = NoGas THEN total ELSE total + gasCost

\* The lowest free slot; a new async call is parked there.
HasFreeSlot == \E i \in Slots : tasks[i].pc = "free"
FreeSlot == CHOOSE i \in Slots : tasks[i].pc = "free" /\ \A j \in Slots : j < i => tasks[j].pc # "free"

\* Math.ceil(a / b) for b > 0
CeilDiv(a, b) == -((-a) \div b)

\* An output of the bot: the method `op` ended as `out` (a throw, or a return
\* value); `result` is the RebalanceResult it returned or handled, `fired`
\* whether onRebalance was called, `observed` the result onRebalance was
\* called with, `wait` the wait time a check reported.
Output(op, out, result, fired, observed, wait) ==
    [op |-> op, out |-> out, result |-> result,
     fired |-> fired, observed |-> observed, wait |-> wait]
\* An output that carries no RebalanceResult.
Plain(op, out, wait) ==
    Output(op, out, FailureResult, FALSE, FailureResult, wait)

\* What checkRebalanceNeeded returns after a fetch, with the snapshot it
\* decided on (its reason cites the snapshot's ticks).
Decision(op, out, position, wait) ==
    [position |-> position] @@ Plain(op, out, wait)

Init ==
    /\ isRunning = FALSE
    /\ lastRebalanceTime = NoTime
    /\ rebalanceCount = 0
    /\ totalGasSpent = 0
    /\ errors = << >>
    /\ config = InitialConfig
    /\ monitoringInterval = NoTimer
    /\ positionId = NoId
    /\ timers = {}
    /\ tasks = [i \in Slots |-> FreeTask]
    /\ now = Epoch
    /\ lastOutput = Plain("none", "none", 0)

\* The call parked in slot i returns.  startMonitoring goes on, after its
\* initial checkAndRebalance, to create the recurring timer; timer i is the
\* handle setInterval gives the start call of slot i.
Finish(i) ==
    /\ tasks' = [tasks EXCEPT ![i] = DoneTask]
    /\ IF tasks[i].kind = "start"
       THEN /\ timers' = timers \cup {i}
            /\ monitoringInterval' = i
       ELSE UNCHANGED << timers, monitoringInterval >>

\* checkAndRebalance() up to the await of getPosition, entered by a call of
\* the given kind; the call is parked in the lowest free slot.
EnterCycle(kind, pid) ==
    IF FalsyId(pid)
    THEN /\ errors' = logError(errors, "No position ID set", now)
         /\ lastOutput' = Plain("cycle", "No position ID set", 0)
         /\ tasks' = [tasks EXCEPT ![FreeSlot] = DoneTask]
         /\ IF kind = "start"
            THEN /\ timers' = timers \cup {FreeSlot}
                 /\ monitoringInterval' = FreeSlot
            ELSE UNCHANGED << timers, monitoringInterval >>
    ELSE /\ tasks' = [tasks EXCEPT ![FreeSlot] =
                        [kind |-> kind, pc |-> "fetch", pid |-> pid]]
         /\ UNCHANGED << errors, lastOutput, timers, monitoringInterval >>

\* startMonitoring: `if (this.state.isRunning) throw`
StartRejected ==
    /\ lastOutput' = Plain("start", "throws", 0)
    /\ UNCHANGED << botState, config, monitoringInterval, positionId, timers,
                    tasks, now >>

\* startMonitoring past the guard, up to the await of getPosition in its
\* initial cycle.
StartAccepted(pid) ==
    /\ HasFreeSlot
    /\ positionId' = pid
    /\ isRunning' = TRUE
    /\ EnterCycle("start", pid)
    /\ UNCHANGED << lastRebalanceTime, rebalanceCount, totalGasSpent, config, now >>

StartMonitoringUnguarded(pid) == StartAccepted(pid)

\* startMonitoring(pid)
StartMonitoring(pid) ==
    IF isRunning THEN StartRejected ELSE StartAccepted(pid)

StopMonitoringResets ==
    /\ IF monitoringInterval # NoTimer
       THEN /\ timers' = timers \ {monitoringInterval}
            /\ monitoringInterval' = NoTimer
       ELSE UNCHANGED << timers, monitoringInterval >>
    /\ isRunning' = FALSE
    /\ lastRebalanceTime' = NoTime
    /\ rebalanceCount' = 0
    /\ totalGasSpent' = 0
    /\ UNCHANGED << errors, config, positionId, tasks, now, lastOutput >>

\* stopMonitoring()
StopMonitoring ==
    /\ IF monitoringInterval # NoTimer
       THEN /\ timers' = timers \ {monitoringInterval}
            /\ monitoringInterval' = NoTimer
       ELSE UNCHANGED << timers, monitoringInterval >>
    /\ isRunning' = FALSE
    /\ UNCHANGED << lastRebalanceTime, rebalanceCount, totalGasSpent, errors,
                    config, positionId, tasks, now, lastOutput >>

\* A live timer fires: the setInterval callback calls checkAndRebalance().
Tick(t) ==
    /\ t \in timers
    /\ HasFreeSlot
    /\ EnterCycle("tick", positionId)
    /\ UNCHANGED << isRunning, lastRebalanceTime, rebalanceCount, totalGasSpent,
                    config, positionId, now >>

\* checkAndRebalance: getPosition gave null.
PositionNotFoundSilent(i) ==
    /\ lastOutput' = Plain("cycle", "Position not found", 0)
    /\ Finish(i)
    /\ UNCHANGED << botState, config, positionId, now >>

PositionNotFound(i) ==
    /\ errors' = logError(errors, "Position not found", now)
    /\ lastOutput' = Plain("cycle", "Position not found", 0)
    /\ Finish(i)
    /\ UNCHANGED << isRunning, lastRebalanceTime, rebalanceCount, totalGasSpent,
                    config, positionId, now >>

\* checkAndRebalance: the cycle ends with a status line and no rebalance; its
\* status lines cite the ticks of the snapshot it fetched.
CycleSkipped(i, status, position) ==
    /\ lastOutput' = Decision("cycle", status, position, 0)
    /\ Finish(i)
    /\ UNCHANGED << botState, config, positionId, now >>

\* executeRebalance up to the await of rebalancePosition(this.positionId, ..).
CallExecutor(i, position) ==
    /\ lastOutput' = Decision("cycle", "Executing rebalance", position, 0)
    /\ tasks' = [tasks EXCEPT ![i] =
                   [kind |-> tasks[i].kind, pc |-> "rebalance", pid |-> positionId]]
    /\ UNCHANGED << botState, config, monitoringInterval, positionId, timers, now >>

CheckAndRebalanceUngated(i, outcome) ==
    /\ tasks[i].pc = "fetch"
    /\ tasks[i].kind \in {"start", "tick"}
    /\ IF outcome.kind = "null"
       THEN PositionNotFound(i)
       ELSE IF ~isPriceOutOfRange(outcome.position)
       THEN CycleSkipped(i, "Price in range", outcome.position)
       ELSE IF FalsyId(positionId)
       THEN CycleSkipped(i, "Price out of range", outcome.position)
       ELSE CallExecutor(i, outcome.position)

\* checkAndRebalance() of slot i goes on when getPosition settles: up to the
\* await of rebalancePosition in executeRebalance, or to its end.
CheckAndRebalance(i, outcome) ==
    /\ tasks[i].pc = "fetch"
    /\ tasks[i].kind \in {"start", "tick"}
    /\ IF outcome.kind = "null"
       THEN PositionNotFound(i)
       ELSE IF ~isPriceOutOfRange(outcome.position)
       THEN CycleSkipped(i, "Price in range", outcome.position)
       ELSE IF ~canRebalance(lastRebalanceTime, config, now)
       THEN CycleSkipped(i, "Waiting for minimum rebalance interval", outcome.position)
       ELSE IF FalsyId(positionId)
       THEN CycleSkipped(i, "Price out of range", outcome.position)
       ELSE CallExecutor(i, outcome.position)

\* executeRebalance: `if (result.success) { .. }`
RebalanceSucceeded(i, result) ==
    /\ lastRebalanceTime' = now
    /\ rebalanceCount' = rebalanceCount + 1
    /\ totalGasSpent' = AddGas(totalGasSpent, result.gasCost)
    /\ positionId' = IF FalsyId(result.newPositionId)
                     THEN positionId ELSE result.newPositionId
    /\ lastOutput' = Output("cycle", "result", result, TRUE, result, 0)
    /\ Finish(i)
    /\ UNCHANGED << isRunning, errors, config, now >>

RebalanceFailedStops(i, result) ==
    /\ errors' = logError(errors, "Rebalance failed", now)
    /\ lastOutput' = Output("cycle", "result", result, TRUE, result, 0)
    /\ tasks' = [tasks EXCEPT ![i] = DoneTask]
    /\ isRunning' = FALSE
    /\ timers' = {}
    /\ monitoringInterval' = NoTimer
    /\ UNCHANGED << lastRebalanceTime, rebalanceCount, totalGasSpent, config,
                    positionId, now >>

\* executeRebalance: `else { this.logError('Rebalance failed: ' + ..) }`
RebalanceFailed(i, result) ==
    /\ errors' = logError(errors, "Rebalance failed", now)
    /\ lastOutput' = Output("cycle", "result", result, TRUE, result, 0)
    /\ Finish(i)
    /\ UNCHANGED << isRunning, lastRebalanceTime, rebalanceCount, totalGasSpent,
                    config, positionId, now >>

ExecuteRebalanceUnlessStopped(i, result) ==
    /\ tasks[i].pc = "rebalance"
    /\ tasks[i].kind \in {"start", "tick"}
    /\ IF ~isRunning
       THEN CycleSkipped(i, "Stopped", NotFound)
       ELSE IF result.success
       THEN RebalanceSucceeded(i, result)
       ELSE RebalanceFailed(i, result)

\* executeRebalance() of slot i goes on when rebalancePosition resolves.
ExecuteRebalance(i, result) ==
    /\ tasks[i].pc = "rebalance"
    /\ tasks[i].kind \in {"start", "tick"}
    /\ IF result.success
       THEN RebalanceSucceeded(i, result)
       ELSE RebalanceFailed(i, result)

TriggerRebalanceUnchecked ==
    /\ HasFreeSlot
    /\ tasks' = [tasks EXCEPT ![FreeSlot] =
                   [kind |-> "manual", pc |-> "rebalance", pid |-> positionId]]
    /\ UNCHANGED << botState, config, monitoringInterval, positionId,
                    timers, now, lastOutput >>

TriggerRebalanceGated ==
    IF FalsyId(positionId)
    THEN /\ lastOutput' = Plain("trigger", "no-position", 0)
         /\ UNCHANGED << botState, config, monitoringInterval, positionId,
                         timers, tasks, now >>
    ELSE IF ~canRebalance(lastRebalanceTime, config, now)
    THEN /\ lastOutput' = Plain("trigger", "waiting", 0)
         /\ UNCHANGED << botState, config, monitoringInterval, positionId,
                         timers, tasks, now >>
    ELSE /\ HasFreeSlot
         /\ tasks' = [tasks EXCEPT ![FreeSlot] =
                        [kind |-> "manual", pc |-> "rebalance", pid |-> positionId]]
         /\ UNCHANGED << botState, config, monitoringInterval, positionId,
                         timers, now, lastOutput >>

\* triggerRebalance(), up to the await of rebalancePosition.
TriggerRebalance ==
    IF FalsyId(positionId)
    THEN /\ lastOutput' = Plain("trigger", "no-position", 0)
         /\ UNCHANGED << botState, config, monitoringInterval, positionId,
                         timers, tasks, now >>
    ELSE /\ HasFreeSlot
         /\ tasks' = [tasks EXCEPT ![FreeSlot] =
                        [kind |-> "manual", pc |-> "rebalance", pid |-> positionId]]
         /\ UNCHANGED << botState, config, monitoringInterval, positionId,
                         timers, now, lastOutput >>

TriggerRebalanceResolveQuietFailure(i, result) ==
    /\ tasks[i].pc = "rebalance"
    /\ tasks[i].kind = "manual"
    /\ IF result.success
       THEN /\ lastRebalanceTime' = now
            /\ rebalanceCount' = rebalanceCount + 1
            /\ totalGasSpent' = AddGas(totalGasSpent, result.gasCost)
       ELSE UNCHANGED << lastRebalanceTime, rebalanceCount, totalGasSpent >>
    /\ lastOutput' = Output("trigger", "result", result, result.success,
                            IF result.success THEN result ELSE FailureResult, 0)
    /\ Finish(i)
    /\ UNCHANGED << isRunning, errors, config, positionId, now >>

\* triggerRebalance() of slot i goes on when rebalancePosition resolves.
TriggerRebalanceResolve(i, result) ==
    /\ tasks[i].pc = "rebalance"
    /\ tasks[i].kind = "manual"
    /\ IF result.success
       THEN /\ lastRebalanceTime' = now
            /\ rebalanceCount' = rebalanceCount + 1
            /\ totalGasSpent' = AddGas(totalGasSpent, result.gasCost)
       ELSE UNCHANGED << lastRebalanceTime, rebalanceCount, totalGasSpent >>
    /\ lastOutput' = Output("trigger", "result", result, TRUE, result, 0)
    /\ Finish(i)
    /\ UNCHANGED << isRunning, errors, config, positionId, now >>

\* checkRebalanceNeeded(), up to the await of getPosition.
CheckRebalanceNeeded ==
    IF FalsyId(positionId)
    THEN /\ lastOutput' = Plain("check", "no-position", 0)
         /\ UNCHANGED << botState, config, monitoringInterval, positionId,
                         timers, tasks, now >>
    ELSE /\ HasFreeSlot
         /\ tasks' = [tasks EXCEPT ![FreeSlot] =
                        [kind |-> "check", pc |-> "fetch", pid |-> positionId]]
         /\ UNCHANGED << botState, config, monitoringInterval, positionId,
                         timers, now, lastOutput >>

waitTimeFloored(last, cfg, t) ==
    (cfg.minRebalanceInterval * MsPerSecond
       - (t - (IF FalsyTime(last) THEN 0 ELSE last))) \div MsPerSecond

\* The wait checkRebalanceNeeded reports, in seconds.
waitTime(last, cfg, t) ==
    CeilDiv(cfg.minRebalanceInterval * MsPerSecond
              - (t - (IF FalsyTime(last) THEN 0 ELSE last)), MsPerSecond)

CheckRebalanceNeededResolveUngated(i, outcome) ==
    /\ tasks[i].pc = "fetch"
    /\ tasks[i].kind = "check"
    /\ lastOutput' =
          IF outcome.kind = "null"
          THEN Plain("check", "not-found", 0)
          ELSE IF ~isPriceOutOfRange(outcome.position)
          THEN Decision("check", "in-range", outcome.position, 0)
          ELSE Decision("check", "needed", outcome.position, 0)
    /\ Finish(i)
    /\ UNCHANGED << botState, config, positionId, now >>

CheckRebalanceNeededResolveLogs(i, outcome) ==
    /\ tasks[i].pc = "fetch"
    /\ tasks[i].kind = "check"
    /\ lastOutput' =
          IF outcome.kind = "null"
          THEN Plain("check", "not-found", 0)
          ELSE IF ~isPriceOutOfRange(outcome.position)
          THEN Decision("check", "in-range", outcome.position, 0)
          ELSE IF ~canRebalance(lastRebalanceTime, config, now)
          THEN Decision("check", "waiting", outcome.position,
                        waitTime(lastRebalanceTime, config, now))
          ELSE Decision("check", "needed", outcome.position, 0)
    /\ errors' = IF outcome.kind = "null"
                 THEN logError(errors, "Position not found", now) ELSE errors
    /\ Finish(i)
    /\ UNCHANGED << isRunning, lastRebalanceTime, rebalanceCount, totalGasSpent,
                    config, positionId, now >>

\* checkRebalanceNeeded() of slot i goes on when getPosition settles.
CheckRebalanceNeededResolve(i, outcome) ==
    /\ tasks[i].pc = "fetch"
    /\ tasks[i].kind = "check"
    /\ lastOutput' =
          IF outcome.kind = "null"
          THEN Plain("check", "not-found", 0)
          ELSE IF ~isPriceOutOfRange(outcome.position)
          THEN Decision("check", "in-range", outcome.position, 0)
          ELSE IF ~canRebalance(lastRebalanceTime, config, now)
          THEN Decision("check", "waiting", outcome.position,
                        waitTime(lastRebalanceTime, config, now))
          ELSE Decision("check", "needed", outcome.position, 0)
    /\ Finish(i)
    /\ UNCHANGED << botState, config, positionId, now >>

\* updateConfig(newConfig)
UpdateConfig(newConfig) ==
    /\ config' = newConfig @@ config
    /\ UNCHANGED << botState, monitoringInterval, positionId, timers, tasks,
                    now, lastOutput >>

\* Time passes.
AdvanceClock ==
    /\ now + ClockStep <= Epoch + MaxClockSteps * ClockStep
    /\ now' = now + ClockStep
    /\ UNCHANGED << botState, config, monitoringInterval, positionId, timers,
                    tasks, lastOutput >>

Next ==
    \/ \E pid \in StartIds : StartMonitoring(pid)
    \/ StopMonitoring
    \/ \E t \in Slots : Tick(t)
    \/ \E i \in Slots, outcome \in FetchOutcomes : CheckAndRebalance(i, outcome)
    \/ \E i \in Slots, result \in RebalanceResults : ExecuteRebalance(i, result)
    \/ TriggerRebalance
    \/ \E i \in Slots, result \in RebalanceResults : TriggerRebalanceResolve(i, result)
    \/ CheckRebalanceNeeded
    \/ \E i \in Slots, outcome \in FetchOutcomes : CheckRebalanceNeededResolve(i, outcome)
    \/ \E newConfig \in ConfigUpdates : UpdateConfig(newConfig)
    \/ AdvanceClock

Spec == Init /\ [][Next]_vars

\* The bot driven by its schedule alone: a caller starts it once and never
\* calls stop, triggerRebalance, checkRebalanceNeeded or updateConfig.
NextScheduled ==
    \/ \E pid \in StartIds : StartMonitoring(pid)
    \/ \E t \in Slots : Tick(t)
    \/ \E i \in Slots, outcome \in FetchOutcomes : CheckAndRebalance(i, outcome)
    \/ \E i \in Slots, result \in RebalanceResults : ExecuteRebalance(i, result)
    \/ AdvanceClock

SpecScheduled == Init /\ [][NextScheduled]_vars

\* The gas costs the Executor reports, in the order its successful results
\* are handed back: the k-th successful rebalance costs GasSchedule[k].
GasSchedule == << 100, 250, LargeGas >>
ScheduledResults ==
    { [success |-> TRUE, gasCost |-> GasSchedule[rebalanceCount + 1],
       newPositionId |-> NoId],
      FailureResult }

\* The bot with an Executor that reports the costs of GasSchedule.
NextGas ==
    \/ \E pid \in StartIds : StartMonitoring(pid)
    \/ \E t \in Slots : Tick(t)
    \/ \E i \in Slots, outcome \in FetchOutcomes : CheckAndRebalance(i, outcome)
    \/ /\ rebalanceCount < Len(GasSchedule)
       /\ \E i \in Slots, result \in ScheduledResults : ExecuteRebalance(i, result)
    \/ TriggerRebalance
    \/ /\ rebalanceCount < Len(GasSchedule)
       /\ \E i \in Slots, result \in ScheduledResults : TriggerRebalanceResolve(i, result)
    \/ AdvanceClock

SpecGas == Init /\ [][NextGas]_vars

\* Any Partial<RebalanceConfig> that sets one numeric field: updateConfig
\* takes numbers of either sign.
AnyConfigUpdates ==
    { [f \in {name} |-> v] :
        name \in {"slippageTolerance", "rangeWidthPercent",
                  "minRebalanceInterval", "gasBudget"},
        v \in -1..MaxInterval }

\* The bot with a caller that passes any numbers to updateConfig.
NextConfig ==
    \/ \E pid \in StartIds : StartMonitoring(pid)
    \/ \E t \in Slots : Tick(t)
    \/ \E i \in Slots, outcome \in FetchOutcomes : CheckAndRebalance(i, outcome)
    \/ \E i \in Slots, result \in RebalanceResults : ExecuteRebalance(i, result)
    \/ \E newConfig \in AnyConfigUpdates : UpdateConfig(newConfig)

SpecConfig == Init /\ [][NextConfig]_vars

\* The bot with a caller that shortens minRebalanceInterval to 0 while a
\* cycle is in flight; the timers fire only before that update, so every
\* cycle begins under InitialConfig.
NextLateUpdate ==
    \/ \E pid \in StartIds : StartMonitoring(pid)
    \/ /\ config = InitialConfig
       /\ \E t \in Slots : Tick(t)
    \/ \E i \in Slots, outcome \in FetchOutcomes : CheckAndRebalance(i, outcome)
    \/ \E i \in Slots, result \in RebalanceResults : ExecuteRebalance(i, result)
    \/ /\ \E i \in Slots : tasks[i].kind \in {"start", "tick"}
                            /\ tasks[i].pc \in {"fetch", "rebalance"}
       /\ UpdateConfig([f \in {"minRebalanceInterval"} |-> 0])
    \/ AdvanceClock

SpecLateUpdate == Init /\ [][NextLateUpdate]_vars

\* A bot that has already logged k errors: it was started on position "p1"
\* and k of its cycles failed, in turn on a missing position and on a failed
\* rebalance; it was then stopped and all its calls have returned.
PriorErrorCounts == {0, ErrorCap - 1, ErrorCap}
PriorErrors(k) ==
    [ j \in 1..k |->
        [time |-> Epoch,
         message |-> IF j % 2 = 1 THEN "Position not found" ELSE "Rebalance failed"] ]
InitLogged ==
    /\ isRunning = FALSE
    /\ lastRebalanceTime = NoTime
    /\ rebalanceCount = 0
    /\ totalGasSpent = 0
    /\ \E k \in PriorErrorCounts :
          /\ errors = PriorErrors(k)
          /\ positionId = IF k = 0 THEN NoId ELSE "p1"
    /\ config = InitialConfig
    /\ monitoringInterval = NoTimer
    /\ timers = {}
    /\ tasks = [i \in Slots |-> FreeTask]
    /\ now = Epoch
    /\ lastOutput = Plain("none", "none", 0)

SpecLogged == InitLogged /\ [][NextScheduled]_vars

\* --------------------------------------------- CetusService arithmetic
\* rangeWidthPercent is modelled in thousandths of a percent.  tickSpan is
\* Math.round(Math.log(1 + rangeWidthPercent / 100) / Math.log(1.0001)) in
\* IEEE doubles, tabulated: 0.001% -> 0, 0.01% -> 1, 1% -> 100, 10% -> 953.
Widths == {1, 10, 1000, 10000}
tickSpan(width) ==
    CASE width = 1 -> 0
      [] width = 10 -> 1
      [] width = 1000 -> 100
      [] width = 10000 -> 953

\* Math.round(x / 2): the nearest integer, a half going up.
RoundHalf(x) == (x + 1) \div 2

calculateNewTickRangeRounded(currentTick, tickSpacing, width) ==
    LET halfRange == RoundHalf(tickSpan(width))
    IN [ halfRange |-> halfRange,
         tickLower |-> ((2 * (currentTick - halfRange) + tickSpacing)
                          \div (2 * tickSpacing)) * tickSpacing,
         tickUpper |-> ((2 * (currentTick + halfRange) + tickSpacing)
                          \div (2 * tickSpacing)) * tickSpacing ]

\* calculateNewTickRange(currentTick, tickSpacing, rangeWidthPercent)
calculateNewTickRange(currentTick, tickSpacing, width) ==
    LET halfRange == RoundHalf(tickSpan(width))
    IN [ halfRange |-> halfRange,
         tickLower |-> ((currentTick - halfRange) \div tickSpacing) * tickSpacing,
         tickUpper |-> CeilDiv(currentTick + halfRange, tickSpacing) * tickSpacing ]

\* BigNumber.toFixed(0) of the exact quotient n / d (d > 0) under the
\* library's default rounding mode ROUND_HALF_UP: to the nearest integer, a
\* half going away from zero.
ToFixed0(n, d) ==
    IF n >= 0 THEN (2 * n + d) \div (2 * d) ELSE -((2 * (-n) + d) \div (2 * d))

\* buildAddLiquidityTx: new BN(amount).times(1 - slippageTolerance / 100)
\* .toFixed(0), with slippageTolerance modelled in tenths of a percent.
minAmount(amount, tolerance) == ToFixed0(amount * (1000 - tolerance), 1000)

\* A BigNumber that div() returns: an integer part and DecimalPlaces decimal
\* digits.  FracDigits(r, d, k) are the next k digits of r / d for r < d.
RECURSIVE FracDigits(_, _, _)
FracDigits(r, d, k) ==
    IF k = 0 THEN << >>
    ELSE << (r * 10) \div d >> \o FracDigits((r * 10) % d, d, k - 1)
\* The digits plus one unit in the last place; carry is 1 when they were all 9.
RECURSIVE AddUlp(_)
AddUlp(digits) ==
    IF digits = << >> THEN [digits |-> << >>, carry |-> 1]
    ELSE LET n == Len(digits)
             last == digits[n]
             front == SubSeq(digits, 1, n - 1)
         IN IF last < 9
            THEN [digits |-> Append(front, last + 1), carry |-> 0]
            ELSE LET rest == AddUlp(front)
                 IN [digits |-> Append(rest.digits, 0), carry |-> rest.carry]
BNInteger(n) == [int |-> n, frac |-> [k \in 1..DecimalPlaces |-> 0]]
\* BigNumber(n).div(d) for n >= 0, d > 0: the quotient rounded half up to
\* DecimalPlaces decimal places.
BNDivFinite(n, d) ==
    LET all == FracDigits(n % d, d, DecimalPlaces + 1)
        kept == SubSeq(all, 1, DecimalPlaces)
    IN IF all[DecimalPlaces + 1] < 5
       THEN [int |-> n \div d, frac |-> kept]
       ELSE LET up == AddUlp(kept)
            IN [int |-> n \div d + up.carry, frac |-> up.digits]
\* The BigNumbers that are not finite: div() by zero does not throw, it
\* returns Infinity, or NaN for 0 / 0.
BNInfinity == [special |-> "Infinity"]
BNNaN == [special |-> "NaN"]
BNDiv(n, d) ==
    IF d # 0 THEN BNDivFinite(n, d)
    ELSE IF n = 0 THEN BNNaN ELSE BNInfinity

calculateTokenAmountsSwapped(liquidity, current, lower, upper) ==
    IF current < lower
    THEN [ amountA |-> BNDiv(liquidity * (upper - lower), upper * lower),
           amountB |-> BNInteger(0) ]
    ELSE IF current > upper
    THEN [ amountA |-> BNInteger(0),
           amountB |-> BNInteger(liquidity * (upper - lower)) ]
    ELSE [ amountA |-> BNDiv(liquidity * (upper - current), upper * current),
           amountB |-> BNInteger(liquidity * (upper - current)) ]

\* calculateTokenAmounts(liquidity, sqrtPriceCurrent, sqrtPriceLower, sqrtPriceUpper)
calculateTokenAmounts(liquidity, current, lower, upper) ==
    IF current < lower
    THEN [ amountA |-> BNDiv(liquidity * (upper - lower), upper * lower),
           amountB |-> BNInteger(0) ]
    ELSE IF current > upper
    THEN [ amountA |-> BNInteger(0),
           amountB |-> BNInteger(liquidity * (upper - lower)) ]
    ELSE [ amountA |-> BNDiv(liquidity * (upper - current), upper * current),
           amountB |-> BNInteger(liquidity * (current - lower)) ]

\* Inputs of the arithmetic functions.
Ticks == {-61, -60, -1, 0, 1, 59, 60, 61, 1234}
TickSpacings == {1, 2, 60}
Amounts == {0, 1, 2, 3, 10, 199, 200, 1000}
Tolerances == {1, 5, 10, 500, 1000, 2000}

\* A caller gets calculateNewTickRange(currentTick, tickSpacing, width).
CalculateNewTickRange(currentTick, tickSpacing, width) ==
    /\ lastOutput' =
          [op |-> "calculateNewTickRange", currentTick |-> currentTick,
           tickSpacing |-> tickSpacing, width |-> width,
           range |-> calculateNewTickRange(currentTick, tickSpacing, width)]
    /\ UNCHANGED << botState, config, monitoringInterval, positionId, timers,
                    tasks, now >>

\* buildAddLiquidityTx computes the minimum of one amount.
BuildAddLiquidityTx(amount, tolerance) ==
    /\ lastOutput' =
          [op |-> "minAmount", amount |-> amount, tolerance |-> tolerance,
           min |-> minAmount(amount, tolerance)]
    /\ UNCHANGED << botState, config, monitoringInterval, positionId, timers,
                    tasks, now >>

\* getPosition gets calculateTokenAmounts(liquidity, current, lower, upper).
CalculateTokenAmounts(liquidity, current, lower, upper) ==
    /\ lastOutput' =
          [op |-> "calculateTokenAmounts", liquidity |-> liquidity,
           current |-> current, lower |-> lower, upper |-> upper,
           amounts |-> calculateTokenAmounts(liquidity, current, lower, upper)]
    /\ UNCHANGED << botState, config, monitoringInterval, positionId, timers,
                    tasks, now >>

NextMath ==
    \/ \E currentTick \in Ticks, tickSpacing \in TickSpacings, width \in Widths :
          CalculateNewTickRange(currentTick, tickSpacing, width)
    \/ \E amount \in Amounts, tolerance \in Tolerances :
          BuildAddLiquidityTx(amount, tolerance)
    \/ \E liquidity \in 0..MaxLiquidity, lower \in 1..MaxSqrtPrice,
          current \in 0..(MaxSqrtPrice + 1) :
          \E upper \in lower..MaxSqrtPrice :
             CalculateTokenAmounts(liquidity, current, lower, upper)

SpecMath == Init /\ [][NextMath]_vars

\* getPosition from calculateTokenAmounts on: the amounts become the strings
\* of the snapshot it returns (its catch turns a throw into null).
GetPosition(liquidity, current, lower, upper) ==
    /\ lastOutput' =
          [op |-> "getPosition", liquidity |-> liquidity,
           current |-> current, lower |-> lower, upper |-> upper,
           out |-> "position",
           amounts |-> calculateTokenAmounts(liquidity, current, lower, upper)]
    /\ UNCHANGED << botState, config, monitoringInterval, positionId, timers,
                    tasks, now >>

\* The token amounts for ledger data that may hold a zero sqrt price.
NextDegenerate ==
    \/ \E liquidity \in 0..MaxLiquidity, lower \in 0..MaxSqrtPrice,
          current \in 0..(MaxSqrtPrice + 1) :
          \E upper \in lower..MaxSqrtPrice :
             CalculateTokenAmounts(liquidity, current, lower, upper)
    \/ \E liquidity \in 0..MaxLiquidity, lower \in 0..MaxSqrtPrice,
          current \in 0..(MaxSqrtPrice + 1) :
          \E upper \in lower..MaxSqrtPrice :
             GetPosition(liquidity, current, lower, upper)

SpecDegenerate == Init /\ [][NextDegenerate]_vars

\* ------------------------------------------------------------ the Executor
\* What the promise of CetusService.getPoolInfo resolves with: a pool, or null
\* (it catches every error of the ledger client).  It never rejects.
PoolOutcomes == {"pool", "null"}
\* How the ledger client answers a submitted transaction.
LedgerOutcomes == {"rejects", "unconfirmed", "confirmed"}

\* The RebalanceResult rebalancePosition resolves with, and what the
\* invocation did on the way: `position` is the snapshot it fetched (NotFound
\* if none), `calls` the move calls it added to its Transaction, in order,
\* `submissions` the number of signAndExecuteTransaction calls it made.
ExecutorResult(success, gasCost, error, position, calls, submissions) ==
    [success |-> success, gasCost |-> gasCost, newPositionId |-> NoId,
     error |-> error, position |-> position, calls |-> calls,
     submissions |-> submissions]
ExecutorFailure(error, position, calls, submissions) ==
    ExecutorResult(FALSE, NoGas, error, position, calls, submissions)

\* getSigner(): `throw new Error('Wallet signer not implemented')`
getSigner == "throws"

\* buildRemoveLiquidityTx adds one move call to the transaction.
buildRemoveLiquidityTx(calls) == Append(calls, "remove_liquidity")

buildAddLiquidityTxFundsFirst(calls, encodes) ==
    IF encodes THEN << "open_position", "add_liquidity" >> \o calls
    ELSE << "open_position" >> \o calls

\* buildAddLiquidityTx adds two move calls; the second is not added when
\* tx.pure.u64 rejects an amount string (one that is not a whole number).
buildAddLiquidityTx(calls, encodes) ==
    IF encodes THEN calls \o << "open_position", "add_liquidity" >>
    ELSE Append(calls, "open_position")

\* rebalancePosition resolves: its caller in slot i goes on with the result.
ResolveCaller(i, result) ==
    IF tasks[i].kind = "manual"
    THEN TriggerRebalanceResolve(i, result)
    ELSE ExecuteRebalance(i, result)

\* The call in slot i awaits getPoolInfo inside rebalancePosition.
AwaitPool(i, position) ==
    /\ tasks' = [tasks EXCEPT ![i] =
                   [stage |-> "pool", position |-> position] @@ tasks[i]]
    /\ UNCHANGED << botState, config, monitoringInterval, positionId, timers,
                    now, lastOutput >>

rebalancePositionUnchecked(i, wallet, outcome) ==
    /\ tasks[i].pc = "rebalance"
    /\ "stage" \notin DOMAIN tasks[i]
    /\ IF ~wallet
       THEN ResolveCaller(i, ExecutorFailure("Wallet not connected", NotFound, << >>, 0))
       ELSE IF outcome.kind = "null"
       THEN ResolveCaller(i, ExecutorFailure("Position not found", NotFound, << >>, 0))
       ELSE AwaitPool(i, outcome.position)

\* rebalancePosition called from slot i, up to the await of getPoolInfo or to
\* its return: `wallet` tells whether senderAddress is set, `outcome` is what
\* getPosition resolves with.
rebalancePosition(i, wallet, outcome) ==
    /\ tasks[i].pc = "rebalance"
    /\ "stage" \notin DOMAIN tasks[i]
    /\ IF ~wallet
       THEN ResolveCaller(i, ExecutorFailure("Wallet not connected", NotFound, << >>, 0))
       ELSE IF outcome.kind = "null"
       THEN ResolveCaller(i, ExecutorFailure("Position not found", NotFound, << >>, 0))
       ELSE IF ~isPriceOutOfRange(outcome.position)
       THEN ResolveCaller(i, ExecutorFailure("Price is still within range",
                                             outcome.position, << >>, 0))
       ELSE AwaitPool(i, outcome.position)

\* What rebalancePosition returns once the transaction is built: getSigner()
\* is evaluated before signAndExecuteTransaction is called.
Submit(position, calls, ledger) ==
    IF getSigner = "throws"
    THEN ExecutorFailure("Wallet signer not implemented", position, calls, 0)
    ELSE IF ledger = "confirmed"
    THEN ExecutorResult(TRUE, 100, "", position, calls, 1)
    ELSE ExecutorFailure(ledger, position, calls, 1)

rebalancePositionWithPoolRaises(i, pool, encodes, ledger) ==
    /\ tasks[i].pc = "rebalance"
    /\ "stage" \in DOMAIN tasks[i]
    /\ IF pool = "null"
       THEN ResolveCaller(i, ExecutorFailure("Pool not found", tasks[i].position, << >>, 0))
       ELSE IF tasks[i].kind = "manual"
       THEN /\ lastOutput' = Plain("trigger", "throws", 0)
            /\ Finish(i)
            /\ UNCHANGED << botState, config, positionId, now >>
       ELSE /\ errors' = logError(errors, "Error during rebalance", now)
            /\ lastOutput' = Plain("cycle", "Error during rebalance", 0)
            /\ Finish(i)
            /\ UNCHANGED << isRunning, lastRebalanceTime, rebalanceCount,
                            totalGasSpent, config, positionId, now >>

\* rebalancePosition of slot i goes on when getPoolInfo settles, to its
\* return; its catch turns every throw into a failure result.
rebalancePositionWithPool(i, pool, encodes, ledger) ==
    /\ tasks[i].pc = "rebalance"
    /\ "stage" \in DOMAIN tasks[i]
    /\ LET position == tasks[i].position
           calls == buildAddLiquidityTx(buildRemoveLiquidityTx(<< >>), encodes)
       IN IF pool = "null"
          THEN ResolveCaller(i, ExecutorFailure("Pool not found", position, << >>, 0))
          ELSE IF ~encodes
          THEN ResolveCaller(i, ExecutorFailure("Invalid amount", position, calls, 0))
          ELSE ResolveCaller(i, Submit(position, calls, ledger))

\* The bot with the Executor of the repository: a caller starts and stops it
\* and triggers rebalances by hand.
NextExecutor ==
    \/ \E pid \in StartIds : StartMonitoring(pid)
    \/ StopMonitoring
    \/ \E t \in Slots : Tick(t)
    \/ \E i \in Slots, outcome \in FetchOutcomes : CheckAndRebalance(i, outcome)
    \/ TriggerRebalance
    \/ \E i \in Slots, wallet \in BOOLEAN, outcome \in FetchOutcomes :
          rebalancePosition(i, wallet, outcome)
    \/ \E i \in Slots, pool \in PoolOutcomes, encodes \in BOOLEAN,
          ledger \in LedgerOutcomes :
          rebalancePositionWithPool(i, pool, encodes, ledger)

SpecExecutor == Init /\ [][NextExecutor]_vars

\* ------------------------------------------------------------ getState
\* getState(): `return { ...this.state }`.  The caller holds a new object with
\* copies of the four scalar fields; its `errors` field is the array
\* state.errors itself (SnapshotErrors).  `edits` counts the caller's edits.
GetState ==
    /\ HasFreeSlot
    /\ tasks' = [tasks EXCEPT ![FreeSlot] =
                   [kind |-> "snapshot", pc |-> "held", pid |-> NoId,
                    isRunning |-> isRunning,
                    lastRebalanceTime |-> lastRebalanceTime,
                    rebalanceCount |-> rebalanceCount,
                    totalGasSpent |-> totalGasSpent,
                    edits |-> 0]]
    /\ UNCHANGED << botState, config, monitoringInterval, positionId, timers,
                    now, lastOutput >>

\* The errors sequence seen through the snapshot of slot i: logError pushes
\* onto the array the snapshot refers to, and replaces state.errors by a new
\* array only when it holds more than 100 entries.
SnapshotErrors(i) == errors

\* The holder of snapshot i does snapshot.errors.push(..).
CallerPushes(i) ==
    /\ tasks[i].kind = "snapshot"
    /\ tasks[i].edits < MaxEdits
    /\ Len(errors) < ErrorCap
    /\ errors' = Append(errors, [time |-> 0, message |-> "caller"])
    /\ tasks' = [tasks EXCEPT ![i].edits = @ + 1]
    /\ UNCHANGED << isRunning, lastRebalanceTime, rebalanceCount, totalGasSpent,
                    config, monitoringInterval, positionId, timers, now,
                    lastOutput >>

\* The holder of snapshot i does snapshot.errors.pop().
CallerPops(i) ==
    /\ tasks[i].kind = "snapshot"
    /\ tasks[i].edits < MaxEdits
    /\ errors' = SubSeq(errors, 1, Len(errors) - 1)
    /\ tasks' = [tasks EXCEPT ![i].edits = @ + 1]
    /\ UNCHANGED << isRunning, lastRebalanceTime, rebalanceCount, totalGasSpent,
                    config, monitoringInterval, positionId, timers, now,
                    lastOutput >>

\* The holder of snapshot i does snapshot.rebalanceCount = 0.
CallerResetsCount(i) ==
    /\ tasks[i].kind = "snapshot"
    /\ tasks[i].edits < MaxEdits
    /\ tasks' = [tasks EXCEPT ![i].edits = @ + 1, ![i].rebalanceCount = 0]
    /\ UNCHANGED << botState, config, monitoringInterval, positionId, timers,
                    now, lastOutput >>

\* The scheduled bot and a caller that takes snapshots and edits them.
NextSnapshot ==
    \/ \E pid \in StartIds : StartMonitoring(pid)
    \/ \E t \in Slots : Tick(t)
    \/ \E i \in Slots, outcome \in FetchOutcomes : CheckAndRebalance(i, outcome)
    \/ \E i \in Slots, result \in RebalanceResults : ExecuteRebalance(i, result)
    \/ GetState
    \/ \E i \in Slots : CallerPushes(i)
    \/ \E i \in Slots : CallerPops(i)
    \/ \E i \in Slots : CallerResetsCount(i)

SpecSnapshot == Init /\ [][NextSnapshot]_vars

\* A bot whose caller only asks checkRebalanceNeeded.  It is either fresh
\* from its constructor, or was started on "p1" (the start call has returned
\* and its timer is live) and has, or has not, rebalanced once before; the
\* clock and the configured interval are any of a few values.
CheckTimes == { Epoch + d : d \in {0, 1, 999, 1000, 1001, 10000} }
CheckIntervals == {0, 1, 2, 300}
CheckSnapshots ==
    { [tickLower |-> l, tickUpper |-> u, currentTick |-> c] :
        l \in {-1, 0}, u \in {0, 1}, c \in -2..2 }
    \cup { [tickLower |-> 1000, tickUpper |-> 2000, currentTick |-> 2500] }
CheckOutcomes ==
    { [kind |-> "position", position |-> p] : p \in CheckSnapshots }
    \cup { [kind |-> "null", position |-> NotFound] }
InitCheck ==
    /\ now \in CheckTimes
    /\ lastRebalanceTime \in {NoTime} \cup { t \in CheckTimes : t <= now }
    /\ rebalanceCount = IF lastRebalanceTime = NoTime THEN 0 ELSE 1
    /\ totalGasSpent = IF lastRebalanceTime = NoTime THEN 0 ELSE 100
    /\ errors = << >>
    /\ \E interval \in CheckIntervals :
          config = [InitialConfig EXCEPT !.minRebalanceInterval = interval]
    /\ \/ /\ lastRebalanceTime = NoTime
          /\ isRunning = FALSE
          /\ positionId = NoId
          /\ monitoringInterval = NoTimer
          /\ timers = {}
          /\ tasks = [i \in Slots |-> FreeTask]
       \/ /\ isRunning = TRUE
          /\ positionId = "p1"
          /\ monitoringInterval = 1
          /\ timers = {1}
          /\ tasks = [i \in Slots |-> IF i = 1 THEN DoneTask ELSE FreeTask]
    /\ lastOutput = Plain("none", "none", 0)

NextCheck ==
    \/ CheckRebalanceNeeded
    \/ \E i \in Slots, outcome \in CheckOutcomes : CheckRebalanceNeededResolve(i, outcome)

SpecCheck == InitCheck /\ [][NextCheck]_vars

\* ------------------------------------------------------------ properties
\* Slot i holds a call that is awaiting a CetusService promise.
InFlight(i) == tasks[i].pc \in {"fetch", "rebalance"}
\* Slot i holds a check-and-act cycle in flight (start's initial one, or a tick's).
CycleInFlight(i) == tasks[i].kind \in {"start", "tick"} /\ InFlight(i)
\* This step spawns a cycle for a timer tick.
TickCycleStarts == \E i \in Slots : tasks[i].pc = "free" /\ tasks'[i].kind = "tick"
\* This step is the continuation of the cycle of slot i after getPosition.
CycleLeavesFetch(i) ==
    /\ tasks[i].kind \in {"start", "tick"}
    /\ tasks[i].pc = "fetch"
    /\ tasks'[i].pc # "fetch"
\* This step hands the Executor's result to the call of slot i (a cycle's
\* executeRebalance, or triggerRebalance).
ExecutorReturns(i) == tasks[i].pc = "rebalance" /\ tasks'[i].pc = "done"
ExecutorSucceeds == \E i \in Slots : ExecutorReturns(i) /\ lastOutput'.result.success
ExecutorFails == \E i \in Slots : ExecutorReturns(i) /\ ~lastOutput'.result.success

\* C1: a cycle spawned by a timer tick never runs while an earlier cycle of
\* the bot (start's initial cycle or an earlier tick's) is still in flight.
C1_CyclesOneAtATime ==
    \A i, j \in Slots :
        (i < j /\ CycleInFlight(i) /\ CycleInFlight(j)) => tasks[j].kind # "tick"

\* C2: the schedule starts a cycle only while the bot is Running, that is,
\* never after stop() and before the next start.
C2_NoCycleAfterStop == [][TickCycleStarts => isRunning]_vars

\* C3: startMonitoring gets past its guard only when the bot is not running,
\* and a start that throws changes nothing: position id, BotState, config,
\* timers, the monitoring handle and the suspended calls stay as they were.
C3_StartWhileRunningRejected ==
    [][ /\ (\E i \in Slots : tasks[i].pc = "free" /\ tasks'[i].kind = "start")
           => ~isRunning
        /\ (lastOutput' # lastOutput /\ lastOutput'.op = "start")
           => /\ isRunning
              /\ lastOutput'.out = "throws"
              /\ UNCHANGED << botState, config, monitoringInterval, positionId,
                              timers, tasks, now >> ]_vars
C3_Witness ==
    /\ lastOutput = Plain("start", "throws", 0)
    /\ isRunning
    /\ positionId = "p2"

\* C4: when a scheduled cycle records a successful rebalance, the previous
\* recorded rebalance (if any) lies at least minRebalanceInterval seconds back.
C4_MinSpacing ==
    [][ (\E i \in Slots : /\ ExecutorReturns(i)
                          /\ tasks[i].kind \in {"start", "tick"}
                          /\ lastOutput'.result.success)
        => \/ FalsyTime(lastRebalanceTime)
           \/ now - lastRebalanceTime >= config.minRebalanceInterval * MsPerSecond
      ]_vars

\* C5: a scheduled cycle calls the Executor only while config.autoRebalance
\* is true.
C5_AutoRebalanceGate ==
    [][ (\E i \in Slots : CycleLeavesFetch(i) /\ tasks'[i].pc = "rebalance")
        => config.autoRebalance ]_vars

\* C6: when a cycle's position fetch fails, one error stamped with the
\* current time is appended, the Executor is not called, isRunning, the
\* counters, lastRebalanceTime and the position id are unchanged, and no
\* timer is removed (after start's initial cycle the timer is still created).
C6_FetchFailureSkipsCycle ==
    [][ \A i \in Slots :
          (CycleLeavesFetch(i) /\ lastOutput'.out = "Position not found")
          => /\ errors' = Append(errors, [time |-> now, message |-> "Position not found"])
             /\ tasks'[i].pc = "done"
             /\ UNCHANGED << isRunning, lastRebalanceTime, rebalanceCount,
                             totalGasSpent, positionId >>
             /\ timers \subseteq timers'
             /\ (tasks[i].kind = "start" => i \in timers') ]_vars
C6_Witness ==
    /\ lastOutput = Plain("cycle", "Position not found", 0)
    /\ Len(errors) = 2
    /\ isRunning
    /\ timers # {}

\* C7: whenever the Executor hands back a successful result, to a cycle or to
\* triggerRebalance, rebalanceCount grows by one, lastRebalanceTime becomes
\* the current time and the result's gas cost is added to totalGasSpent.
C7_SuccessUpdatesStats ==
    [][ ExecutorSucceeds
        => /\ rebalanceCount' = rebalanceCount + 1
           /\ lastRebalanceTime' = now
           /\ totalGasSpent' = totalGasSpent + lastOutput'.result.gasCost ]_vars
C7_Witness ==
    /\ lastOutput.op = "trigger"
    /\ lastOutput.result.success
    /\ rebalanceCount = 2
    /\ totalGasSpent = 200
    /\ lastRebalanceTime = Epoch + ClockStep

\* C8: whenever the Executor hands back a successful result that carries a
\* new position id, that id becomes the monitored position id.
C8_NewIdBecomesMonitored ==
    [][ (ExecutorSucceeds /\ lastOutput'.result.newPositionId # NoId)
        => positionId' = lastOutput'.result.newPositionId ]_vars

\* C9: when the Executor hands back a failure, the counters, lastRebalanceTime,
\* the position id and isRunning are unchanged and no timer is removed.
C9_FailureLeavesStats ==
    [][ ExecutorFails
        => /\ UNCHANGED << rebalanceCount, totalGasSpent, lastRebalanceTime,
                           positionId, isRunning >>
           /\ timers \subseteq timers' ]_vars
C9_Witness ==
    /\ lastOutput.op = "cycle"
    /\ lastOutput.fired
    /\ ~lastOutput.result.success
    /\ isRunning
    /\ timers # {}
    /\ rebalanceCount = 1

\* C10: whenever the Executor hands back a failure, to a cycle or to
\* triggerRebalance, an error entry is appended to errors.
C10_FailureLogged ==
    [][ ExecutorFails => Len(errors') = Len(errors) + 1 ]_vars

\* The sum of the first k costs of GasSchedule.
RECURSIVE GasSum(_)
GasSum(k) == IF k = 0 THEN 0 ELSE GasSum(k - 1) + GasSchedule[k]

CycleLogsError ==
    \E i \in Slots :
        \/ CycleLeavesFetch(i) /\ lastOutput'.out = "Position not found"
        \/ /\ ExecutorReturns(i)
           /\ tasks[i].kind \in {"start", "tick"}
           /\ ~lastOutput'.result.success

\* C12: errors never holds more than 100 entries, and logging an error keeps
\* the most recent entries in order: the new entry, stamped with the current
\* time, goes to the end, and when 100 entries are already held the oldest
\* one is evicted first.
C12_ErrorsKeepLatest100 ==
    [][ /\ Len(errors') <= ErrorCap
        /\ (CycleLogsError \/ errors' # errors)
           => /\ errors'[Len(errors')].time = now
              /\ errors'[Len(errors')].message = lastOutput'.out
                 \/ (lastOutput'.out = "result"
                     /\ errors'[Len(errors')].message = "Rebalance failed")
              /\ errors' = (IF Len(errors) < ErrorCap THEN errors ELSE Tail(errors))
                              \o << errors'[Len(errors')] >> ]_vars
C12_Witness ==
    /\ Len(errors) = ErrorCap
    /\ errors[1].message = "Rebalance failed"
    /\ errors[ErrorCap - 1].time = Epoch
    /\ errors[ErrorCap].time = Epoch + ClockStep

\* C13: in every step of the bot (start, stop, cycles, triggerRebalance,
\* updateConfig, checkRebalanceNeeded, in any interleaving) rebalanceCount and
\* totalGasSpent do not decrease, and lastRebalanceTime, once set, stays set
\* and does not decrease.
C13_StatsMonotonic ==
    [][ /\ rebalanceCount' >= rebalanceCount
        /\ totalGasSpent' >= totalGasSpent
        /\ lastRebalanceTime # NoTime
           => /\ lastRebalanceTime' # NoTime
              /\ lastRebalanceTime' >= lastRebalanceTime ]_vars
C13_Witness ==
    /\ rebalanceCount = 3
    /\ totalGasSpent = 300
    /\ lastRebalanceTime = Epoch + ClockStep
    /\ ~isRunning
    /\ lastOutput.op = "trigger"

\* A call of triggerRebalance() that goes straight to the Executor with the
\* monitored position id.
ManualCallsExecutor ==
    /\ TriggerRebalance
    /\ \E i \in Slots :
          /\ tasks[i].pc = "free"
          /\ tasks'[i] = [kind |-> "manual", pc |-> "rebalance", pid |-> positionId]

\* C14: with a monitored position set, triggerRebalance() calls the Executor
\* at once even while the interval gate is closed (now - lastRebalanceTime <
\* minRebalanceInterval): the manual path is never blocked by canRebalance.
C14_ManualBypassesGate ==
    (/\ ~FalsyId(positionId)
     /\ HasFreeSlot
     /\ ~canRebalance(lastRebalanceTime, config, now))
    => ENABLED ManualCallsExecutor
C14_Witness ==
    /\ \E i \in Slots : tasks[i] = [kind |-> "manual", pc |-> "rebalance", pid |-> "p1"]
    /\ \A i \in Slots : tasks[i].kind # "manual" => tasks[i].pc = "done"
    /\ rebalanceCount = 1
    /\ lastRebalanceTime = now
    /\ config.minRebalanceInterval = 1

\* C15: triggerRebalance() with no monitored position returns a failure
\* result at once and changes nothing: no call of the Executor is made (no
\* call is parked), onRebalance is not fired, and BotState, config, the
\* position id and the timers stay as they were; and a manual call reaches
\* the Executor only with a position id set.
C15_TriggerWithoutPosition ==
    [][ /\ (lastOutput' # lastOutput /\ lastOutput'.op = "trigger"
             /\ lastOutput'.out = "no-position")
           => /\ FalsyId(positionId)
              /\ ~lastOutput'.result.success
              /\ ~lastOutput'.fired
              /\ UNCHANGED << botState, config, positionId, tasks, timers,
                              monitoringInterval >>
        /\ (\E i \in Slots : tasks[i].pc = "free" /\ tasks'[i].kind = "manual")
           => ~FalsyId(positionId) ]_vars
C15_Witness ==
    /\ lastOutput = Plain("trigger", "no-position", 0)
    /\ positionId = NoId
    /\ now = Epoch + ClockStep
    /\ ~config.autoRebalance

\* C16: when the Executor hands its result to a triggerRebalance() call, the
\* call returns a RebalanceResult, onRebalance is fired in that same step
\* (once: the call is done afterwards) and is given the very result the
\* caller gets, whether it is a success or a failure.
C16_ManualResultObserved ==
    [][ \A i \in Slots :
          (ExecutorReturns(i) /\ tasks[i].kind = "manual")
          => /\ lastOutput'.op = "trigger"
             /\ lastOutput'.out = "result"
             /\ lastOutput'.fired
             /\ lastOutput'.observed = lastOutput'.result
             /\ tasks'[i] = DoneTask ]_vars
C16_Witness ==
    /\ lastOutput.op = "trigger"
    /\ lastOutput.out = "result"
    /\ lastOutput.fired
    /\ lastOutput.observed = FailureResult
    /\ lastOutput.result = FailureResult
    /\ rebalanceCount = 0

\* C17: a triggerRebalance() call and a scheduled cycle never have calls of
\* the Executor or the Ledger Client outstanding at the same time.
C17_ManualSerialized ==
    \A i, j \in Slots :
        ~(tasks[i].kind = "manual" /\ InFlight(i) /\ CycleInFlight(j))

\* C18: the live config always has slippageTolerance > 0, rangeWidthPercent
\* > 0, minRebalanceInterval >= 0 and gasBudget > 0: updateConfig rejects an
\* update that would break these bounds.
C18_ConfigInBounds ==
    /\ config.slippageTolerance > 0
    /\ config.rangeWidthPercent > 0
    /\ config.minRebalanceInterval >= 0
    /\ config.gasBudget > 0

\* C19: a cycle in flight when updateConfig is called finishes with the
\* config it began with: it calls the Executor only if the interval gate is
\* open under that config (InitialConfig for every cycle of SpecLateUpdate).
C19_InFlightKeepsConfig ==
    [][ (\E i \in Slots : CycleLeavesFetch(i) /\ tasks'[i].pc = "rebalance")
        => canRebalance(lastRebalanceTime, InitialConfig, now) ]_vars

\* The cycle of slot i goes on to its end when the promise it awaits settles.
CycleContinues(i) ==
    \/ \E outcome \in FetchOutcomes : CheckAndRebalance(i, outcome)
    \/ \E result \in RebalanceResults : ExecuteRebalance(i, result)

\* C20: stop() does not cancel a cycle in flight.  While the bot is stopped
\* such a cycle can still go on; when the Executor hands it its result the
\* result is reported through onRebalance and the state is updated as usual
\* (a success sets the counters, lastRebalanceTime and a new position id, a
\* failure appends an error), and a failed position fetch appends its error.
C20_InFlightCycleSurvivesStop ==
    [][ \A i \in Slots :
          (CycleInFlight(i) /\ ~isRunning)
          => /\ ENABLED CycleContinues(i)
             /\ (ExecutorReturns(i) /\ tasks[i].kind \in {"start", "tick"})
                => /\ lastOutput'.fired
                   /\ lastOutput'.observed = lastOutput'.result
                   /\ lastOutput'.result.success
                      => /\ rebalanceCount' = rebalanceCount + 1
                         /\ lastRebalanceTime' = now
                         /\ totalGasSpent' = totalGasSpent + lastOutput'.result.gasCost
                         /\ lastOutput'.result.newPositionId # NoId
                            => positionId' = lastOutput'.result.newPositionId
                   /\ ~lastOutput'.result.success
                      => errors' = Append(errors, [time |-> now, message |-> "Rebalance failed"])
             /\ (CycleLeavesFetch(i) /\ lastOutput'.out = "Position not found")
                => errors' = Append(errors, [time |-> now, message |-> "Position not found"])
      ]_vars
C20_Witness ==
    /\ tasks[1] = DoneTask
    /\ \A i \in Slots : i > 1 => tasks[i] = FreeTask
    /\ ~isRunning
    /\ monitoringInterval = 1
    /\ rebalanceCount = 1
    /\ positionId = "p2"
    /\ lastOutput.fired
    /\ lastOutput.result.success

\* The latest output is a checkRebalanceNeeded decision made on a snapshot.
CheckDecided ==
    lastOutput.op = "check" /\ lastOutput.out \in {"in-range", "waiting", "needed"}

\* C21: a snapshot counts as in range exactly when tickLower <= currentTick
\* <= tickUpper (negative ticks included): the bounds themselves are in
\* range, one tick beyond either bound is out of range.
C21_OutOfRangeIffOutsideBounds ==
    CheckDecided
    => LET p == lastOutput.position
       IN (lastOutput.out = "in-range")
          <=> (p.tickLower <= p.currentTick /\ p.currentTick <= p.tickUpper)
C21_Witness ==
    /\ lastOutput.op = "check"
    /\ lastOutput.out = "in-range"
    /\ lastOutput.position = [tickLower |-> -1, tickUpper |-> 0, currentTick |-> -1]

\* C22: for an out-of-range snapshot the interval gate is open exactly when
\* lastRebalanceTime is unset or now - lastRebalanceTime (milliseconds) is at
\* least minRebalanceInterval seconds: open with no prior rebalance, closed
\* at the time of a rebalance whenever the interval is positive.
C22_GateOpenIffIntervalElapsed ==
    (lastOutput.op = "check" /\ lastOutput.out \in {"waiting", "needed"})
    => /\ (lastOutput.out = "needed")
          <=> \/ lastRebalanceTime = NoTime
              \/ now - lastRebalanceTime >= config.minRebalanceInterval * 1000
       /\ lastRebalanceTime = NoTime => lastOutput.out = "needed"
       /\ (lastRebalanceTime = now /\ config.minRebalanceInterval > 0)
          => lastOutput.out = "waiting"
C22_Witness ==
    /\ lastOutput.op = "check"
    /\ lastOutput.out = "waiting"
    /\ lastRebalanceTime = now
    /\ config.minRebalanceInterval = 1

\* C23: checkRebalanceNeeded answers needed exactly when the snapshot it
\* fetched is out of range and the interval is satisfied; a missing position
\* and no monitored position give not needed; range [1000, 2000] with current
\* tick 2500 and no prior rebalance gives needed.
C23_NeededIffOutOfRangeAndInterval ==
    lastOutput.op = "check"
    => /\ (lastOutput.out = "needed")
          <=> /\ "position" \in DOMAIN lastOutput
              /\ \/ lastOutput.position.currentTick < lastOutput.position.tickLower
                 \/ lastOutput.position.currentTick > lastOutput.position.tickUpper
              /\ \/ lastRebalanceTime = NoTime
                 \/ now - lastRebalanceTime >= config.minRebalanceInterval * 1000
       /\ lastOutput.out = "no-position" <=> positionId = NoId
       /\ ("position" \in DOMAIN lastOutput
           /\ lastOutput.position = [tickLower |-> 1000, tickUpper |-> 2000,
                                     currentTick |-> 2500]
           /\ lastRebalanceTime = NoTime)
          => lastOutput.out = "needed"
C23_Witness ==
    /\ lastOutput.op = "check"
    /\ lastOutput.out = "needed"
    /\ lastOutput.position = [tickLower |-> 1000, tickUpper |-> 2000, currentTick |-> 2500]
    /\ lastRebalanceTime = NoTime

\* C24: when the snapshot is out of range and the interval is not satisfied
\* the reported wait is the remaining time rounded up to whole seconds, at
\* least 1 and at most minRebalanceInterval (10 s after a rebalance with an
\* interval of 300 s it is 290).
C24_WaitIsRemainingRoundedUp ==
    (lastOutput.op = "check" /\ lastOutput.out = "waiting")
    => LET remaining == config.minRebalanceInterval * 1000 - (now - lastRebalanceTime)
       IN /\ lastOutput.wait * 1000 >= remaining
          /\ (lastOutput.wait - 1) * 1000 < remaining
          /\ lastOutput.wait >= 1
          /\ lastOutput.wait <= config.minRebalanceInterval
          /\ (now - lastRebalanceTime = 10000 /\ config.minRebalanceInterval = 300)
             => lastOutput.wait = 290
C24_Witness ==
    /\ lastOutput.op = "check"
    /\ lastOutput.out = "waiting"
    /\ lastOutput.wait = 290

\* This step is a call of checkRebalanceNeeded or the rest of one.
CheckStep ==
    \/ \E i \in Slots : tasks[i].pc = "free" /\ tasks'[i].kind = "check"
    \/ \E i \in Slots : tasks[i].kind = "check" /\ tasks'[i].pc = "done"
    \/ lastOutput'.op = "check" /\ lastOutput' # lastOutput

\* C25: checkRebalanceNeeded changes no state, whatever it answers (a failed
\* fetch included): BotState, config, the position id, the timers and the
\* monitoring handle stay as they were; and a call that decides on the same
\* snapshot as the previous one, at the same clock, answers the same.
C25_CheckIsReadOnly ==
    [][ CheckStep
        => /\ UNCHANGED << botState, config, positionId, timers, monitoringInterval >>
           /\ (/\ lastOutput.op = "check" /\ lastOutput'.op = "check"
               /\ "position" \in DOMAIN lastOutput
               /\ "position" \in DOMAIN lastOutput'
               /\ lastOutput'.position = lastOutput.position)
              => lastOutput' = lastOutput ]_vars
C25_Witness ==
    /\ lastOutput = Plain("check", "not-found", 0)
    /\ isRunning
    /\ errors = << >>
    /\ tasks[2] = DoneTask
    /\ tasks[3] = DoneTask

\* C26: calculateNewTickRange returns, for any current tick (negative ones
\* included), spacing >= 1 and half-span h >= 0, bounds that are multiples of
\* the spacing, each the nearest such multiple at or beyond the span's end:
\* tickLower <= currentTick - h and tickUpper >= currentTick + h, hence
\* tickLower <= currentTick <= tickUpper (width 10%, spacing 60, tick 1234
\* give [720, 1740]).
C26_RangeAlignedAndContainsSpan ==
    lastOutput.op = "calculateNewTickRange"
    => LET r == lastOutput.range
           c == lastOutput.currentTick
           sp == lastOutput.tickSpacing
       IN /\ r.halfRange >= 0
          /\ r.tickLower % sp = 0
          /\ r.tickUpper % sp = 0
          /\ r.tickLower <= c - r.halfRange
          /\ r.tickLower > c - r.halfRange - sp
          /\ r.tickUpper >= c + r.halfRange
          /\ r.tickUpper < c + r.halfRange + sp
          /\ r.tickLower <= c
          /\ c <= r.tickUpper
          /\ (c = 1234 /\ sp = 60 /\ lastOutput.width = 10000)
             => (r.tickLower = 720 /\ r.tickUpper = 1740)
C26_Witness ==
    /\ lastOutput.op = "calculateNewTickRange"
    /\ lastOutput.currentTick = -61
    /\ lastOutput.tickSpacing = 60
    /\ lastOutput.width = 10000
    /\ lastOutput.range.tickLower = -540
    /\ lastOutput.range.tickUpper = 420

\* C27: calculateNewTickRange always returns tickLower < tickUpper.
C27_RangeNeverCollapses ==
    lastOutput.op = "calculateNewTickRange"
    => lastOutput.range.tickLower < lastOutput.range.tickUpper

\* C28: the slippage-adjusted minimum is floor(amount * (1 - tolerance/100)):
\* never rounded up, never negative, never above the amount, and 0 for a
\* tolerance of 100% or more (tolerance in tenths of a percent).
C28_MinAmountIsFloor ==
    lastOutput.op = "minAmount"
    => /\ lastOutput.min =
             IF lastOutput.tolerance >= 1000 THEN 0
             ELSE (lastOutput.amount * (1000 - lastOutput.tolerance)) \div 1000
       /\ lastOutput.min >= 0
       /\ lastOutput.min <= lastOutput.amount

\* An integer amount.
WholeAmount(n) == [int |-> n, frac |-> [k \in 1..DecimalPlaces |-> 0]]

\* C29: calculateTokenAmounts follows the three-way split and both amounts
\* are non-negative integers, the division truncating toward zero.
C29_TokenAmountsTruncated ==
    lastOutput.op = "calculateTokenAmounts"
    => LET L == lastOutput.liquidity
           cur == lastOutput.current
           lo == lastOutput.lower
           up == lastOutput.upper
       IN lastOutput.amounts =
            IF cur < lo
            THEN [amountA |-> WholeAmount((L * (up - lo)) \div (up * lo)),
                  amountB |-> WholeAmount(0)]
            ELSE IF cur > up
            THEN [amountA |-> WholeAmount(0),
                  amountB |-> WholeAmount(L * (up - lo))]
            ELSE [amountA |-> WholeAmount((L * (up - cur)) \div (up * cur)),
                  amountB |-> WholeAmount(L * (cur - lo))]

\* a <= b for two amounts: by integer part, then digit by digit.
AmountLeq(a, b) ==
    \/ a.int < b.int
    \/ /\ a.int = b.int
       /\ \/ a.frac = b.frac
          \/ \E k \in 1..DecimalPlaces :
                /\ a.frac[k] < b.frac[k]
                /\ \A j \in 1..(k - 1) : a.frac[j] = b.frac[j]

\* C30: for one position (same liquidity and bounds), the amounts at a
\* current price equal to the lower bound are those just below the range
\* with amountB = 0, the amounts at the upper bound are those just above the
\* range with amountA = 0, and inside the range amountB does not decrease
\* and amountA does not increase as the current price rises.
C30_TokenAmountsContinuous ==
    [][ (/\ lastOutput.op = "calculateTokenAmounts"
         /\ lastOutput'.op = "calculateTokenAmounts"
         /\ lastOutput'.liquidity = lastOutput.liquidity
         /\ lastOutput'.lower = lastOutput.lower
         /\ lastOutput'.upper = lastOutput.upper)
        => LET lo == lastOutput.lower
               up == lastOutput.upper
               cur == lastOutput.current
               next == lastOutput'.current
               a == lastOutput.amounts
               b == lastOutput'.amounts
           IN /\ (cur < lo /\ next = lo)
                 => (b.amountA = a.amountA /\ b.amountB = WholeAmount(0))
              /\ (cur > up /\ next = up)
                 => (b.amountB = a.amountB /\ b.amountA = WholeAmount(0))
              /\ (lo <= cur /\ cur <= next /\ next <= up)
                 => (AmountLeq(a.amountB, b.amountB) /\ AmountLeq(b.amountA, a.amountA))
      ]_vars
C30_Witness ==
    /\ lastOutput.op = "calculateTokenAmounts"
    /\ lastOutput.current = lastOutput.lower
    /\ lastOutput.lower = 2
    /\ lastOutput.upper = 3
    /\ lastOutput.liquidity = 1
    /\ lastOutput.amounts.amountB = WholeAmount(0)
    /\ lastOutput.amounts.amountA.frac[1] = 1

\* C31: when a zero sqrt price makes a divisor of calculateTokenAmounts zero
\* (below the range the divisor is upper * lower, otherwise upper * current)
\* the call ends in an error: it returns no amounts, and getPosition returns
\* no snapshot carrying them.
C31_ZeroDivisorIsFatal ==
    (/\ lastOutput.op \in {"calculateTokenAmounts", "getPosition"}
     /\ lastOutput.current <= lastOutput.upper
     /\ \/ lastOutput.current < lastOutput.lower
           /\ lastOutput.upper * lastOutput.lower = 0
        \/ lastOutput.current >= lastOutput.lower
           /\ lastOutput.upper * lastOutput.current = 0)
    => "amounts" \notin DOMAIN lastOutput

\* C32: the Executor decides on the snapshot it fetches itself: it goes on to
\* the pool fetch only with a snapshot that is out of range, and for one that
\* is in range it returns, to a cycle and to a manual trigger alike, the
\* failure 'Price is still within range' with no move call built and nothing
\* submitted.
C32_ExecutorRechecksRange ==
    /\ \A i \in Slots :
          (tasks[i].pc = "rebalance" /\ "stage" \in DOMAIN tasks[i])
             => isPriceOutOfRange(tasks[i].position)
    /\ (/\ lastOutput.out = "result"
        /\ lastOutput.result.position # NotFound
        /\ ~isPriceOutOfRange(lastOutput.result.position))
          => lastOutput.result =
                ExecutorFailure("Price is still within range",
                                lastOutput.result.position, << >>, 0)

C32_Witness ==
    /\ lastOutput.op = "trigger"
    /\ lastOutput.out = "result"
    /\ lastOutput.result.error = "Price is still within range"
    /\ ~isPriceOutOfRange(lastOutput.result.position)

\* C33: whenever rebalancePosition ends, its caller gets a RebalanceResult
\* (nothing is raised), a result that is not a success carries an error
\* reason, and a scheduled cycle that gets it leaves isRunning and every live
\* timer as they were.
C33_ExecutorFailureIsAResult ==
    [][\A i \in Slots :
          ExecutorReturns(i) =>
             /\ lastOutput'.out = "result"
             /\ lastOutput'.fired
             /\ ~lastOutput'.result.success => lastOutput'.result.error # ""
             /\ tasks[i].kind \in {"start", "tick"} =>
                   /\ isRunning' = isRunning
                   /\ timers \subseteq timers'
                   /\ ~lastOutput'.result.success => Len(errors') = Len(errors) + 1]_vars

C33_Witness ==
    /\ lastOutput.op = "cycle"
    /\ lastOutput.out = "result"
    /\ lastOutput.result.error = "Wallet signer not implemented"
    /\ isRunning
    /\ timers # {}

\* C36: in the transaction of one rebalancePosition call every open or fund
\* move call comes after a remove_liquidity call, the call submits at most
\* once and only the whole remove, open, fund sequence, and it submits nothing
\* when the position or the pool could not be fetched.
C36_RemoveBeforeAddOneSubmission ==
    lastOutput.out = "result" =>
       LET result == lastOutput.result
           calls == result.calls
       IN /\ \A k \in DOMAIN calls :
                calls[k] \in {"open_position", "add_liquidity"}
                   => \E j \in 1..(k - 1) : calls[j] = "remove_liquidity"
          /\ result.submissions <= 1
          /\ result.submissions = 1
                => calls = << "remove_liquidity", "open_position", "add_liquidity" >>
          /\ result.error \in {"Position not found", "Pool not found"}
                => result.submissions = 0 /\ calls = << >>

C36_Witness ==
    /\ lastOutput.out = "result"
    /\ lastOutput.result.calls =
          << "remove_liquidity", "open_position", "add_liquidity" >>
    /\ lastOutput.result.submissions <= 1

\* C35: a scheduled cycle that has fetched a snapshot calls the Executor
\* exactly when the snapshot is out of range and canRebalance holds at that
\* moment; otherwise it ends with a status line only: no Executor call is
\* pending for it, and the counters, lastRebalanceTime, the error history and
\* the monitored id are as before.
C35_CycleCallsExecutorIffGateOpen ==
    [][\A i \in Slots :
          (CycleLeavesFetch(i) /\ "position" \in DOMAIN lastOutput') =>
             LET open == /\ isPriceOutOfRange(lastOutput'.position)
                         /\ canRebalance(lastRebalanceTime, config, now)
             IN /\ tasks'[i].pc = "rebalance" <=> open
                /\ ~open =>
                      /\ tasks'[i].pc = "done"
                      /\ lastOutput'.out \in
                            {"Price in range",
                             "Waiting for minimum rebalance interval"}
                      /\ ~lastOutput'.fired
                      /\ UNCHANGED << lastRebalanceTime, rebalanceCount,
                                      totalGasSpent, errors, positionId >>]_vars

C35_Witness ==
    /\ lastOutput.op = "cycle"
    /\ lastOutput.out = "Waiting for minimum rebalance interval"
    /\ isPriceOutOfRange(lastOutput.position)
    /\ rebalanceCount > 0

\* C34: a snapshot getState returned is a copy: a step in which its holder
\* edits it leaves the bot's BotState as it was, and a step in which its
\* holder does not touch it leaves the errors sequence seen through it as it
\* was.
C34_SnapshotIsACopy ==
    [][\A i \in Slots :
          (tasks[i].kind = "snapshot" /\ tasks'[i].kind = "snapshot") =>
             IF tasks'[i].edits # tasks[i].edits
             THEN UNCHANGED botState
             ELSE SnapshotErrors(i)' = SnapshotErrors(i)]_vars

\* C37: the bot never has more than one live recurring timer, has none while
\* isRunning is false, and every live timer is the one whose handle
\* monitoringInterval holds (the one stopMonitoring would clear).
C37_AtMostOneLiveTimer ==
    /\ Cardinality(timers) <= 1
    /\ ~isRunning => timers = {}
    /\ timers \subseteq {monitoringInterval}

\* This step is a stopMonitoring() call that changes something: it turns
\* isRunning off or clears a timer (no other method does either).
StopStep ==
    \/ isRunning /\ ~isRunning'
    \/ timers' # timers /\ timers' \subseteq timers

\* C38: a stop() that changes anything is called on a Running bot, and it
\* leaves rebalanceCount, totalGasSpent, lastRebalanceTime, errors, the config
\* and the monitored position id as they were; on a Stopped bot stop() changes
\* nothing.
C38_StopChangesOnlySchedule ==
    [][StopStep =>
          /\ isRunning
          /\ UNCHANGED << lastRebalanceTime, rebalanceCount, totalGasSpent,
                          errors, config, positionId >>]_vars

====
